---- MODULE Spec2Model ----
(***************************************************************************)
(* Observable (src/src/Observable.ts): the listener table of one           *)
(* Observable instance, the operations on, once, off and fire, and the     *)
(* call stack of running fire calls.  fire invokes listeners               *)
(* synchronously, and a listener body may call back into the registry, so  *)
(* a fire call is a stack frame that advances one listener at a time.      *)
(* The bulk form once(handlers) is left out.                               *)
(***************************************************************************)
EXTENDS Integers, Sequences, FiniteSets, TLC

VARIABLES
    eventListeners, \* this.__eventListeners: event name -> array of listeners
    stack,          \* the running fire calls, innermost last
    disposers,      \* the disposers the callers still hold
    nextId,         \* identity of the next once wrapper closure
    invoked,        \* per once wrapper: how often it called its handler
    lastFire,       \* what fire's caller has just got back: the call that ended and how
    cleared,        \* off() was called and nothing was subscribed since
    calls           \* number of calls of on, once, off, fire and disposers made so far

vars == <<eventListeners, stack, disposers, nextId, invoked, lastFire, cleared, calls>>

----------------------------------------------------------------------------
(* Bounds of the exploration *)

\* longest listener array under one event name
MaxLen == 3
\* deepest nesting of fire calls
MaxDepth == 2
\* number of once wrappers ever created
MaxOnce == 2
\* number of disposers the callers hold at a time
MaxHeld == 1
\* invocations of one wrapper's handler that are counted
MaxInvoked == 2
\* calls of the registry's methods and disposers in one run
MaxCalls == 4

Names == {"a", "b"}
Handlers == {"f", "g"}

\* the value of a missing argument or of a map entry without a handler
undefined == "undefined"
\* the key is not a property of the handler map
NoKey == "nokey"

\* payloads passed to fire; "undefined" is the omitted argument
Payloads == {"undefined", "zero", "obj"}
\* the values JavaScript's || treats as false
Falsy == {"undefined", "zero", "false", "emptyString", "null"}
\* the fresh object literal {} of fire
EmptyObject == "{}"

----------------------------------------------------------------------------
(* Listeners: a handler function given by the caller (wid = 0), or the     *)
(* arrow function once() creates (wid > 0), which closes over the event    *)
(* name and the handler.                                                   *)

Plain(h) == [wid |-> 0, name |-> "none", handler |-> h]
cachedWrapperMutant(k, n, h) == [wid |-> 1, name |-> n, handler |-> h]
Wrapper(k, n, h) == [wid |-> k, name |-> n, handler |-> h]
NoListener == Plain(undefined)
IsWrapper(l) == l.wid > 0

\* handler maps of the bulk forms: every name has a handler, undefined, or no key
HandlerMaps == [Names -> Handlers \cup {undefined, NoKey}]
Keys(m) == {n \in Names : m[n] # NoKey}
EmptyMap == [n \in Names |-> NoKey]

Range(s) == {s[i] : i \in 1..Len(s)}
Count(s, x) == Cardinality({i \in 1..Len(s) : s[i] = x})

lastIndexOfMutant(arr, l) ==
    IF \E i \in 1..Len(arr) : arr[i] = l
    THEN CHOOSE i \in 1..Len(arr) : arr[i] = l /\ \A j \in (i + 1)..Len(arr) : arr[j] # l
    ELSE 0

\* Array.prototype.indexOf, 1-based: 0 when absent
indexOf(arr, l) ==
    IF \E i \in 1..Len(arr) : arr[i] = l
    THEN CHOOSE i \in 1..Len(arr) : arr[i] = l /\ \A j \in 1..(i - 1) : arr[j] # l
    ELSE 0

\* Array.prototype.splice(index, 1)
splice(arr, i) == SubSeq(arr, 1, i - 1) \o SubSeq(arr, i + 1, Len(arr))

----------------------------------------------------------------------------
(* The operations on the table, as functions of the table *)

removeOneMutant(tbl, n, l) ==
    IF n \notin DOMAIN tbl THEN tbl
    ELSE IF l # NoListener
         THEN [tbl EXCEPT ![n] = SelectSeq(@, LAMBDA x : x # l)]
         ELSE [tbl EXCEPT ![n] = <<>>]

removeNeedsHandlerMutant(tbl, n, l) ==
    IF n \notin DOMAIN tbl THEN tbl
    ELSE IF l # NoListener
         THEN LET index == indexOf(tbl[n], l)
              IN  IF index > 0 THEN [tbl EXCEPT ![n] = splice(@, index)] ELSE tbl
         ELSE tbl

removeUncheckedIndexMutant(tbl, n, l) ==
    IF n \notin DOMAIN tbl THEN tbl
    ELSE IF l # NoListener
         THEN LET index == indexOf(tbl[n], l)
              IN  [tbl EXCEPT ![n] = IF index > 0 THEN splice(@, index)
                                      ELSE SubSeq(@, 1, Len(@) - 1)]
         ELSE [tbl EXCEPT ![n] = <<>>]

\* _removeEventListener(eventName, handler)
removeEventListener(tbl, n, l) ==
    IF n \notin DOMAIN tbl THEN tbl
    ELSE IF l # NoListener
         THEN LET index == indexOf(tbl[n], l)
              IN  IF index > 0 THEN [tbl EXCEPT ![n] = splice(@, index)] ELSE tbl
         ELSE [tbl EXCEPT ![n] = <<>>]

\* on(eventName, handler): the single-pair branch and the noop branch
on(tbl, n, l) ==
    IF l # NoListener
    THEN IF n \in DOMAIN tbl
         THEN [tbl EXCEPT ![n] = Append(@, l)]
         ELSE tbl @@ (n :> <<l>>)
    ELSE tbl

onFirstKeyMutant(tbl, m, keys) ==
    IF keys = {} THEN tbl
    ELSE LET n == CHOOSE k \in keys : TRUE
         IN  on(tbl, n, Plain(m[n]))

RECURSIVE onEach(_, _, _)
\* the loop of on(handlers) over the keys still to visit
onEach(tbl, m, keys) ==
    IF keys = {} THEN tbl
    ELSE LET n == CHOOSE k \in keys : TRUE
         IN  onEach(on(tbl, n, Plain(m[n])), m, keys \ {n})

\* on(handlers)
onMap(tbl, m) == onEach(tbl, m, Keys(m))

RECURSIVE removeEach(_, _, _)
\* the loops of off over names, with the handler the map gives (or none)
removeEach(tbl, m, keys) ==
    IF keys = {} THEN tbl
    ELSE LET n == CHOOSE k \in keys : TRUE
         IN  removeEach(removeEventListener(tbl, n, Plain(m[n])), m, keys \ {n})

offAllKeepMutant(tbl) == tbl

\* off()
offAll(tbl) == removeEach(tbl, [n \in Names |-> undefined], DOMAIN tbl)

\* off(handlers)
offMap(tbl, m) == removeEach(tbl, m, Keys(m))

\* off(eventName, handler) and off(eventName)
off(tbl, n, l) == removeEventListener(tbl, n, l)

\* options || {}
Arg(p) == IF p \in Falsy THEN EmptyObject ELSE p

\* the Observable instance, fire's this
Owner == "owner"

\* the this value the caller's handler runs with: fire calls the stored listener
\* with .call(this, ...); the wrapper of once is an arrow function that calls
\* handler(...args), a plain call, whose this is undefined in strict code
Receiver(l) == IF IsWrapper(l) THEN undefined ELSE Owner

----------------------------------------------------------------------------
(* Disposers: the closures returned by on and once *)

PairDisposer(n, l) == [kind |-> "pair", name |-> n, listener |-> l, map |-> EmptyMap]
MapDisposer(m) == [kind |-> "map", name |-> "none", listener |-> NoListener, map |-> m]
NoopDisposer == [kind |-> "noop", name |-> "none", listener |-> NoListener, map |-> EmptyMap]

\* the disposer on(n, l) returns
DisposerOf(n, l) == IF l # NoListener THEN PairDisposer(n, l) ELSE NoopDisposer

\* the effect of calling a disposer
dispose(tbl, d) ==
    IF d.kind = "pair" THEN off(tbl, d.name, d.listener)
    ELSE IF d.kind = "map" THEN offMap(tbl, d.map)
    ELSE tbl

----------------------------------------------------------------------------
(* A running fire call.  name, snap, i, inBody and options are the call's  *)
(* locals (eventName, listenersForEvent, i, whether listenersForEvent[i]   *)
(* is executing, options); the other fields record what the call did and   *)
(* what happened while it ran.                                             *)

concatMutant(arr) == IF arr = <<>> THEN arr ELSE Tail(arr)

\* Array.prototype.concat(): a shallow copy
concat(arr) == arr

NewFrame(n, p) ==
    [name |-> n, snap |-> concat(eventListeners[n]), i |-> 0, inBody |-> FALSE,
     options |-> p,
     start |-> eventListeners[n],   \* the array under n when fire was called
     called |-> <<>>,               \* the listeners this call invoked, in order
     args |-> <<>>,                 \* the argument each of them received
     receivers |-> <<>>,            \* the this value each handler ran with
     added |-> {},                  \* listeners registered under n while it ran
     rmPending |-> {},              \* listeners off(n, l) removed while pending in it
     afterClear |-> cleared,        \* called after off() and before any subscription
     nested |-> FALSE]              \* a listener called fire while it ran

\* the frame of a fire call that found no array under its name
IdleFrame(n, p) ==
    [name |-> n, snap |-> <<>>, i |-> 0, inBody |-> FALSE, options |-> p,
     start |-> <<>>, called |-> <<>>, args |-> <<>>, receivers |-> <<>>,
     added |-> {}, rmPending |-> {},
     afterClear |-> cleared, nested |-> FALSE]

\* fire's caller is not looking at the outcome of a fire call
NoFire == [status |-> "none", frame |-> [IdleFrame("a", undefined) EXCEPT !.afterClear = FALSE]]

Depth == Len(stack)
Top == stack[Depth]
\* control is in a caller of the registry: outside every fire, or in a listener body
InContext == IF Depth = 0 THEN TRUE ELSE Top.inBody
\* a caller makes one more call
Call == InContext /\ calls < MaxCalls /\ calls' = calls + 1

liveListeners(f) == eventListeners[f.name]

\* the local listenersForEvent of a running fire call
listenersForEvent(f) == f.snap

\* l is in f's array at a position the loop has not reached
Pending(f, l) == \E j \in (f.i + 1)..Len(f.snap) : f.snap[j] = l

\* the running calls, after regs (pairs <<n, l>>) were registered
NoteOn(stk, regs) ==
    [k \in 1..Len(stk) |->
        [stk[k] EXCEPT !.added = @ \cup {r[2] : r \in {q \in regs : q[1] = stk[k].name}}]]

\* the running calls, after off(n, l) ran with l stored under n
NoteOff(stk, tbl, n, l) ==
    [k \in 1..Len(stk) |->
        [stk[k] EXCEPT !.rmPending =
            IF /\ stk[k].name = n /\ Pending(stk[k], l)
               /\ n \in DOMAIN tbl /\ l \in Range(tbl[n])
            THEN @ \cup {l} ELSE @]]

Running(n) == \E k \in 1..Depth : stack[k].name = n
Room(tbl, n) == n \in DOMAIN tbl => Len(tbl[n]) < MaxLen
CanHold(d) == d \in disposers \/ Cardinality(disposers) < MaxHeld
Hold(keep, d) == IF keep THEN disposers \cup {d} ELSE disposers

----------------------------------------------------------------------------
Init ==
    /\ eventListeners = <<>>
    /\ stack = <<>>
    /\ disposers = {}
    /\ nextId = 1
    /\ invoked = [k \in 1..MaxOnce |-> 0]
    /\ cleared = FALSE
    /\ calls = 0
    /\ lastFire = NoFire

\* on(eventName, handler), handler possibly missing
On(n, h, keep) ==
    /\ Call
    /\ Room(eventListeners, n)
    /\ keep => CanHold(DisposerOf(n, Plain(h)))
    /\ eventListeners' = on(eventListeners, n, Plain(h))
    /\ disposers' = Hold(keep, DisposerOf(n, Plain(h)))
    /\ stack' = NoteOn(stack, {<<n, Plain(h)>>} \ {<<n, NoListener>>})
    /\ cleared' = (cleared /\ h = undefined)
    /\ lastFire' = NoFire
    /\ UNCHANGED <<nextId, invoked>>

\* on(handlers)
OnMap(m, keep) ==
    /\ Call
    /\ \A n \in Keys(m) : Room(eventListeners, n)
    /\ keep => CanHold(MapDisposer(m))
    /\ eventListeners' = onMap(eventListeners, m)
    /\ disposers' = Hold(keep, MapDisposer(m))
    /\ stack' = NoteOn(stack, {<<n, Plain(m[n])>> : n \in {k \in Keys(m) : m[k] # undefined}})
    /\ cleared' = (cleared /\ \A n \in Keys(m) : m[n] = undefined)
    /\ lastFire' = NoFire
    /\ UNCHANGED <<nextId, invoked>>

\* once(eventName, handler) with a handler: on(eventName, wrapper)
Once(n, h, keep) ==
    LET w == Wrapper(nextId, n, h)
    IN  /\ Call
        /\ nextId <= MaxOnce
        /\ Room(eventListeners, n)
        /\ keep => CanHold(PairDisposer(n, w))
        /\ eventListeners' = on(eventListeners, n, w)
        /\ disposers' = Hold(keep, PairDisposer(n, w))
        /\ nextId' = nextId + 1
        /\ stack' = NoteOn(stack, {<<n, w>>})
        /\ cleared' = FALSE
        /\ lastFire' = NoFire
        /\ UNCHANGED invoked

\* off()
OffAll ==
    /\ Call
    /\ eventListeners' = offAll(eventListeners)
    /\ cleared' = TRUE
    /\ lastFire' = NoFire
    /\ UNCHANGED <<stack, disposers, nextId, invoked>>

\* off(eventName, handler), and off(eventName) when h is undefined
Off(n, h) ==
    /\ Call
    /\ eventListeners' = off(eventListeners, n, Plain(h))
    /\ stack' = IF h # undefined THEN NoteOff(stack, eventListeners, n, Plain(h)) ELSE stack
    /\ lastFire' = NoFire
    /\ UNCHANGED <<disposers, nextId, invoked, cleared>>

\* off(handlers)
OffMap(m) ==
    /\ Call
    /\ eventListeners' = offMap(eventListeners, m)
    /\ lastFire' = NoFire
    /\ UNCHANGED <<stack, disposers, nextId, invoked, cleared>>

\* a caller invokes a disposer it holds
Dispose(d) ==
    /\ Call
    /\ d \in disposers
    /\ eventListeners' = dispose(eventListeners, d)
    /\ stack' = IF d.kind = "pair" THEN NoteOff(stack, eventListeners, d.name, d.listener)
                ELSE stack
    /\ lastFire' = NoFire
    /\ UNCHANGED <<disposers, nextId, invoked, cleared>>

\* the running calls, marked as having a fire call made inside them
Nest(stk) == [k \in 1..Len(stk) |-> [stk[k] EXCEPT !.nested = TRUE]]

\* fire(eventName, options): the call, up to the start of the loop
Fire(n, p) ==
    /\ Call
    /\ IF n \in DOMAIN eventListeners
       THEN /\ Depth < MaxDepth
            /\ stack' = Nest(stack) \o <<NewFrame(n, p)>>
            /\ lastFire' = NoFire
       ELSE /\ stack' = Nest(stack)
            /\ lastFire' = [status |-> "returned", frame |-> IdleFrame(n, p)]
    /\ UNCHANGED <<eventListeners, disposers, nextId, invoked, cleared>>

Min(x, y) == IF x < y THEN x ELSE y

\* the loop condition of fire holds: i < listenersForEvent.length
LoopGoesOn(f) == ~f.inBody /\ f.i < Len(listenersForEvent(f))
\* the loop condition of fire fails
LoopEnds(f) == ~f.inBody /\ f.i >= Len(listenersForEvent(f))

\* the loop of fire calls the next listener: listenersForEvent[i].call(this, options || {})
Invoke ==
    /\ Depth > 0
    /\ LoopGoesOn(Top)
    /\ LET l == listenersForEvent(Top)[Top.i + 1]
       IN  /\ stack' = [stack EXCEPT ![Depth] =
                           [@ EXCEPT !.i = @ + 1, !.inBody = TRUE,
                                     !.called = Append(@, l),
                                     !.args = Append(@, Arg(Top.options)),
                                     !.receivers = Append(@, Receiver(l))]]
           /\ invoked' = IF IsWrapper(l)
                         THEN [invoked EXCEPT ![l.wid] = Min(@ + 1, MaxInvoked)]
                         ELSE invoked
    /\ lastFire' = NoFire
    /\ UNCHANGED <<eventListeners, disposers, nextId, cleared, calls>>

\* the listener being run
Current == Top.called[Len(Top.called)]

\* the running listener returns; a once wrapper calls its disposer first
Return ==
    /\ Depth > 0
    /\ Top.inBody
    /\ eventListeners' = IF IsWrapper(Current)
                         THEN dispose(eventListeners, PairDisposer(Current.name, Current))
                         ELSE eventListeners
    /\ stack' = LET back == [stack EXCEPT ![Depth] = [@ EXCEPT !.inBody = FALSE]]
                IN  IF IsWrapper(Current)
                    THEN NoteOff(back, eventListeners, Current.name, Current)
                    ELSE back
    /\ lastFire' = NoFire
    /\ UNCHANGED <<disposers, nextId, invoked, cleared, calls>>

ThrowCaughtMutant ==
    /\ Depth > 0
    /\ Top.inBody
    /\ stack' = [stack EXCEPT ![Depth] = [@ EXCEPT !.inBody = FALSE]]
    /\ lastFire' = NoFire
    /\ UNCHANGED <<eventListeners, disposers, nextId, invoked, cleared, calls>>

\* the running listener throws: fire does not catch, its caller gets the error
Throw ==
    /\ Depth > 0
    /\ Top.inBody
    /\ stack' = SubSeq(stack, 1, Depth - 1)
    /\ lastFire' = [status |-> "threw", frame |-> Top]
    /\ UNCHANGED <<eventListeners, disposers, nextId, invoked, cleared, calls>>

\* the loop of fire ends and fire returns
FireDone ==
    /\ Depth > 0
    /\ LoopEnds(Top)
    /\ stack' = SubSeq(stack, 1, Depth - 1)
    /\ lastFire' = [status |-> "returned", frame |-> Top]
    /\ UNCHANGED <<eventListeners, disposers, nextId, invoked, cleared, calls>>

Next ==
    \/ \E n \in Names, h \in Handlers \cup {undefined}, keep \in BOOLEAN : On(n, h, keep)
    \/ \E m \in HandlerMaps, keep \in BOOLEAN : OnMap(m, keep)
    \/ \E n \in Names, h \in Handlers, keep \in BOOLEAN : Once(n, h, keep)
    \/ OffAll
    \/ \E n \in Names, h \in Handlers \cup {undefined} : Off(n, h)
    \/ \E m \in HandlerMaps : OffMap(m)
    \/ \E d \in disposers : Dispose(d)
    \/ \E n \in Names, p \in Payloads : Fire(n, p)
    \/ Invoke
    \/ Return
    \/ Throw
    \/ FireDone

Spec == Init /\ [][Next]_vars

----------------------------------------------------------------------------
(* Runs in which every listener returns and no listener calls fire: fire   *)
(* is called from outside only and no listener throws.  The loop of fire   *)
(* is sequential code, so it goes on to its next step, and a listener      *)
(* that returns does so after finitely many calls.                         *)

\* fire(eventName, options) called from outside every running fire call
FireOutside(n, p) == Depth = 0 /\ Fire(n, p)

NextReturning ==
    \/ \E n \in Names, h \in Handlers \cup {undefined}, keep \in BOOLEAN : On(n, h, keep)
    \/ \E m \in HandlerMaps, keep \in BOOLEAN : OnMap(m, keep)
    \/ \E n \in Names, h \in Handlers, keep \in BOOLEAN : Once(n, h, keep)
    \/ OffAll
    \/ \E n \in Names, h \in Handlers \cup {undefined} : Off(n, h)
    \/ \E m \in HandlerMaps : OffMap(m)
    \/ \E d \in disposers : Dispose(d)
    \/ \E n \in Names, p \in Payloads : FireOutside(n, p)
    \/ Invoke
    \/ Return
    \/ FireDone

SpecReturning ==
    /\ Init
    /\ [][NextReturning]_vars
    /\ WF_vars(Invoke)
    /\ WF_vars(Return)
    /\ WF_vars(FireDone)

----------------------------------------------------------------------------
(* Properties *)

\* the fire calls that are running or have just ended
Frames == Range(stack) \cup (IF lastFire.status = "none" THEN {} ELSE {lastFire.frame})
Returned == lastFire.status = "returned"
Threw == lastFire.status = "threw"
Ended == lastFire.frame
Stored(n) == IF n \in DOMAIN eventListeners THEN eventListeners[n] ELSE <<>>

\* a fire call that returns has invoked exactly the array stored when it was called
ReturnedAll == Returned => Ended.called = Ended.start

\* C1: the handler of a once registration is invoked at most once, whatever
\* calls are made, re-entrant fire calls and throwing handlers included.
C1_OnceAtMostOnce == \A k \in 1..MaxOnce : invoked[k] <= 1

\* C2: calling the disposer returned by on(N, L) twice leaves the same table as
\* calling it once, in every reachable table.
C2_DisposalIdempotent ==
    \A d \in disposers :
        (d.kind = "pair" /\ ~IsWrapper(d.listener))
            => dispose(dispose(eventListeners, d), d) = dispose(eventListeners, d)

\* the number of registrations of l under n made by the call that returned d
Own(d, n, l) ==
    IF d.kind = "pair" THEN (IF d.name = n /\ d.listener = l THEN 1 ELSE 0)
    ELSE IF d.kind = "map" THEN (IF l # NoListener /\ Plain(d.map[n]) = l THEN 1 ELSE 0)
    ELSE 0

\* C3: a disposer removes only registrations of its own call: under every name,
\* every listener keeps all its occurrences but those the call registered.
C3_DisposerRemovesOnlyOwn ==
    \A d \in disposers : \A n \in DOMAIN eventListeners : \A l \in Range(eventListeners[n]) :
        Count(dispose(eventListeners, d)[n], l) >= Count(eventListeners[n], l) - Own(d, n, l)

C4_During ==
    \A f \in Frames : \A l \in f.added : Count(f.called, l) <= Count(f.start, l)

C4_Step ==
    /\ \A n \in Names, h \in Handlers :
          ((\E keep \in BOOLEAN : On(n, h, keep)) /\ Running(n))
              => /\ Plain(h) \in Range(eventListeners'[n])
                 /\ \A k \in 1..Depth :
                       listenersForEvent(stack[k])' = listenersForEvent(stack[k])
    /\ \A n \in Names, p \in Payloads :
          (Fire(n, p) /\ n \in DOMAIN eventListeners)
              => listenersForEvent(Top)' = eventListeners[n]

\* C4: a listener registered under N by on while fire(N) runs is not invoked by
\* that call (the call invokes no more occurrences of it than were stored when
\* it started), it is stored for the next call, and the next fire(N) iterates
\* the array stored then and, returning, has invoked all of it.
C4_SnapshotLaw == [](C4_During /\ ReturnedAll) /\ [][C4_Step]_vars

\* a fire(N) call has returned in which a listener subscribed one that was not stored
C4_Witness ==
    /\ Returned
    /\ Ended.called # <<>>
    /\ \E l \in Ended.added : l \notin Range(Ended.start) /\ l \in Range(Stored(Ended.name))

\* off(n, h) is called while a running fire(n) has h pending
OffWhilePending(n, h) ==
    /\ Off(n, h)
    /\ n \in DOMAIN eventListeners
    /\ \E k \in 1..Depth : stack[k].name = n /\ Pending(stack[k], Plain(h))

C5_SameCall == Returned => Ended.rmPending \subseteq Range(Ended.called)

C5_LaterCalls ==
    /\ \A n \in Names, p \in Payloads :
          (Fire(n, p) /\ n \in DOMAIN eventListeners)
              => Range(listenersForEvent(Top)') \subseteq Range(eventListeners[n])
    /\ Invoke => Current' \in Range(Top.start)

\* C5 as stated: off(N, L2) during fire(N), L2 pending: L2 is invoked in that
\* call, and afterwards L2 is not stored under N, so no later call invokes it.
C5_Original ==
    /\ []C5_SameCall
    /\ [][/\ C5_LaterCalls
          /\ \A n \in Names, h \in Handlers :
                (OffWhilePending(n, h) /\ Count(eventListeners[n], Plain(h)) >= 1)
                    => Plain(h) \notin Range(eventListeners'[n])]_vars

\* C5 amended: the call, if it returns, has invoked L2; off removes exactly one
\* stored occurrence of L2, so L2 is out of the table, and out of every later
\* call, when it was stored exactly once.
C5_RemovalLaw ==
    /\ []C5_SameCall
    /\ [][/\ C5_LaterCalls
          /\ \A n \in Names, h \in Handlers :
                (OffWhilePending(n, h) /\ Count(eventListeners[n], Plain(h)) >= 1)
                    => /\ Count(eventListeners'[n], Plain(h))
                            = Count(eventListeners[n], Plain(h)) - 1
                       /\ Count(eventListeners[n], Plain(h)) = 1
                            => Plain(h) \notin Range(eventListeners'[n])]_vars

\* a fire call has returned after invoking a listener that another listener removed
C5_Witness ==
    /\ Returned
    /\ Len(Ended.start) = 2
    /\ Ended.start[1] # Ended.start[2]
    /\ Ended.start[2] \in Ended.rmPending
    /\ ~IsWrapper(Ended.start[2])
    /\ Ended.called = Ended.start
    /\ Ended.start[2] \notin Range(Stored(Ended.name))

\* C6: fire(N) invokes the listeners stored under N, once per stored occurrence
\* and in the order stored, and on stores a listener at the end of the array.
C6_FireInvokesStored ==
    /\ []ReturnedAll
    /\ [][\A n \in Names, h \in Handlers :
            (\E keep \in BOOLEAN : On(n, h, keep))
                => eventListeners'[n] = Append(Stored(n), Plain(h))]_vars

\* a call returned that found one listener stored twice and no listener touched the table
C6_Witness ==
    /\ Returned
    /\ Len(Ended.start) = 2
    /\ Ended.start[1] = Ended.start[2]
    /\ Stored(Ended.name) = Ended.start
    /\ \E n \in Names \ {Ended.name} : Stored(n) # <<>>

\* C7: every listener receives the payload given to fire, and the empty object
\* only when the payload is omitted.
C7_PayloadPassed ==
    \A f \in Frames : \A j \in 1..Len(f.args) :
        f.args[j] = IF f.options = undefined THEN EmptyObject ELSE f.options

\* C8: off() leaves every known name with an empty array, and a fire called
\* before the next subscription finds nothing to invoke.
C8_OffAllClears ==
    /\ [](cleared => \A n \in DOMAIN eventListeners : eventListeners[n] = <<>>)
    /\ [](\A f \in Frames : f.afterClear => f.snap = <<>> /\ f.called = <<>>)
    /\ [][OffAll => cleared' /\ DOMAIN eventListeners' = DOMAIN eventListeners]_vars

\* fire returned after off() cleared a table that on and once had filled
C8_Witness ==
    /\ Returned
    /\ Ended.afterClear
    /\ cleared
    /\ Ended.name \in DOMAIN eventListeners
    /\ DOMAIN eventListeners = Names
    /\ nextId > 1

C9_Running ==
    \A k \in 1..Depth :
        /\ listenersForEvent(stack[k]) = stack[k].start
        /\ stack[k].called = SubSeq(stack[k].start, 1, stack[k].i)

\* C9: a fire call made inside a listener iterates the array stored at that
\* moment and leaves the arrays of the calls around it alone; the outer call
\* goes on through its own array and, returning, has invoked all of it.
C9_NestedIndependent ==
    /\ [](C9_Running /\ (Returned /\ Ended.nested => Ended.called = Ended.start))
    /\ [][\A n \in Names, p \in Payloads :
            (Fire(n, p) /\ n \in DOMAIN eventListeners)
                => /\ listenersForEvent(Top)' = eventListeners[n]
                   /\ \A k \in 1..Depth :
                         listenersForEvent(stack[k])' = listenersForEvent(stack[k])]_vars

\* an outer call returned after a nested call ran and the table changed under it
C9_Witness ==
    /\ Returned
    /\ Ended.nested
    /\ Len(Ended.called) = 2
    /\ Stored(Ended.name) # Ended.start

\* C10: a throwing listener ends its fire call: the error is with the caller,
\* the listeners before it and it were invoked once each, none after it, and
\* the table is as the listeners left it.
C10_ErrorAborts ==
    /\ [](Threw => /\ Ended.i >= 1
                   /\ Ended.called = SubSeq(Ended.start, 1, Ended.i)
                   /\ InContext)
    /\ [][Throw => /\ eventListeners' = eventListeners
                   /\ stack' = SubSeq(stack, 1, Depth - 1)
                   /\ lastFire' = [status |-> "threw", frame |-> Top]]_vars

\* the first of two listeners changed the table and threw; the second was not invoked
C10_Witness ==
    /\ Threw
    /\ Len(Ended.start) = 2
    /\ Ended.i = 1
    /\ Len(Ended.called) = 1
    /\ Stored(Ended.name) # Ended.start

\* the listener l is executing in some running fire call
Executing(l) ==
    \E k \in 1..Depth :
        stack[k].inBody /\ stack[k].called[Len(stack[k].called)] = l

\* C11: the disposer returned by once(N, L) cancels a subscription that has not
\* fired; called after L has fired once (and is no longer executing) it changes
\* nothing in the table; in both cases every other registration keeps all its
\* occurrences, another registration of L included.
C11_OnceDisposer ==
    \A d \in disposers :
        IsWrapper(d.listener) =>
            LET w == d.listener
                after == dispose(eventListeners, d)
            IN  /\ DOMAIN after = DOMAIN eventListeners
                /\ \A n \in DOMAIN after :
                      /\ w \notin Range(after[n])
                      /\ \A l \in Range(eventListeners[n]) \ {w} :
                            Count(after[n], l) = Count(eventListeners[n], l)
                /\ (invoked[w.wid] >= 1 /\ ~Executing(w)) => after = eventListeners

\* the single-pair call a bulk call makes for the key n of its map, if n is a key
OnPair(tbl, n, v) == IF v = NoKey THEN tbl ELSE on(tbl, n, Plain(v))
OffPair(tbl, n, v) == IF v = NoKey THEN tbl ELSE off(tbl, n, Plain(v))

\* C12: in every reachable table, on(handlers) leaves the table that the
\* single-pair calls on(name, handler), one per key, leave, and off(handlers)
\* the table that the calls off(name, handler), one per key, leave.
C12_BulkEquivalence ==
    \A m \in [Names -> Handlers \cup {NoKey}] :
        /\ onMap(eventListeners, m)
              = OnPair(OnPair(eventListeners, "a", m["a"]), "b", m["b"])
        /\ offMap(eventListeners, m)
              = OffPair(OffPair(eventListeners, "a", m["a"]), "b", m["b"])

\* on({a: f, b: g}), fire('a'), and in f's body one call that emptied both arrays
\* and was neither off() nor a disposer: off(handlers)
C12_Witness ==
    /\ calls = 3
    /\ Depth = 1
    /\ Top.inBody
    /\ Top.name = "a"
    /\ Top.start = <<Plain("f")>>
    /\ eventListeners = [n \in Names |-> <<>>]
    /\ ~cleared
    /\ disposers = {}

\* a fire call that found no array or an empty one invokes nothing and raises nothing
C13_IdleFire ==
    /\ \A f \in Frames : f.start = <<>> => f.called = <<>> /\ ~f.inBody
    /\ Threw => Ended.start # <<>>

C13_Step ==
    /\ \A n \in Names, h \in Handlers :
          (Off(n, h) /\ (n \in DOMAIN eventListeners => Plain(h) \notin Range(eventListeners[n])))
              => eventListeners' = eventListeners
    /\ \A n \in Names, p \in Payloads :
          Fire(n, p)
              => /\ eventListeners' = eventListeners
                 /\ n \notin DOMAIN eventListeners
                       => /\ Depth' = Depth
                          /\ Returned'
                          /\ Ended'.called = <<>>
                 /\ (n \in DOMAIN eventListeners /\ eventListeners[n] = <<>>)
                       => /\ listenersForEvent(Top)' = <<>>
                          /\ LoopEnds(Top)'

\* C13: off(N, L) with no array under N or with L not stored, and fire(N, P)
\* with no array under N or an empty one, raise no error, invoke no listener and
\* leave the table as it was, creating no entry for N.
C13_AbsentNoOp == []C13_IdleFire /\ [][C13_Step]_vars

\* a listener called fire for a name that has no array: the call returned
\* having invoked nothing, and the name still has no array
C13_Witness ==
    /\ Returned
    /\ Ended.name \notin DOMAIN eventListeners
    /\ Ended.called = <<>>
    /\ Depth = 1
    /\ Top.inBody
    /\ eventListeners[Top.name] = Top.start

\* arr without its element at position i, the others in their order
Without(arr, i) == [j \in 1..(Len(arr) - 1) |-> IF j < i THEN arr[j] ELSE arr[j + 1]]

\* C14: off(N, L) with L stored under N removes exactly one occurrence of L, the
\* first from the front; the other listeners under N keep their order and the
\* arrays of the other names are unchanged.
C14_OffRemovesFirst ==
    [][\A n \in Names, h \in Handlers :
          (Off(n, h) /\ n \in DOMAIN eventListeners /\ Plain(h) \in Range(eventListeners[n]))
              => /\ DOMAIN eventListeners' = DOMAIN eventListeners
                 /\ \A o \in DOMAIN eventListeners \ {n} : eventListeners'[o] = eventListeners[o]
                 /\ \E i \in 1..Len(eventListeners[n]) :
                       /\ eventListeners[n][i] = Plain(h)
                       /\ \A j \in 1..(i - 1) : eventListeners[n][j] # Plain(h)
                       /\ eventListeners'[n] = Without(eventListeners[n], i)]_vars

\* fire(N) found L stored twice, and the one call made in L's body, which was
\* no disposer, removed L while it was pending: one occurrence is left
C14_Witness ==
    /\ Depth = 1
    /\ Top.inBody
    /\ Len(Top.start) = 2
    /\ Top.start[1] = Top.start[2]
    /\ Top.rmPending = {Top.start[1]}
    /\ ~IsWrapper(Top.start[1])
    /\ eventListeners[Top.name] = <<Top.start[1]>>
    /\ disposers = {}
    /\ calls = 4

\* the once wrappers in an array
Wrappers(arr) == {l \in Range(arr) : IsWrapper(l)}

\* a call that returns has invoked every listener stored when it was called,
\* once per stored occurrence, and none of the wrappers it invoked is stored
C15_AtReturn ==
    (Returned /\ Wrappers(Ended.start) # {})
        => /\ Ended.called = Ended.start
           /\ \A w \in Wrappers(Ended.start) :
                 \A n \in DOMAIN eventListeners : w \notin Range(eventListeners[n])

\* the self-removal: the wrapper leaves the table, nothing else does, and the
\* arrays the running calls iterate stay as they are
C15_SelfRemoval ==
    (Return /\ IsWrapper(Current))
        => /\ \A n \in DOMAIN eventListeners :
                 /\ Current \notin Range(eventListeners'[n])
                 /\ \A l \in Range(eventListeners[n]) \ {Current} :
                       Count(eventListeners'[n], l) = Count(eventListeners[n], l)
           /\ \A k \in 1..Depth :
                 listenersForEvent(stack[k])' = listenersForEvent(stack[k])

\* C15: the self-removal of a once wrapper in the middle of fire(N) does not
\* disturb the iteration: the call invokes every other listener stored when it
\* was called exactly once per stored occurrence, and when it returns normally
\* the wrapper is no longer in the table.
C15_OnceMidFire == [](C9_Running /\ C15_AtReturn) /\ [][C15_SelfRemoval]_vars

\* fire returned having found a once wrapper between two plain listeners: all
\* three were invoked and the two plain ones are what is left
C15_Witness ==
    /\ Returned
    /\ Len(Ended.start) = 3
    /\ ~IsWrapper(Ended.start[1])
    /\ IsWrapper(Ended.start[2])
    /\ ~IsWrapper(Ended.start[3])
    /\ Ended.called = Ended.start
    /\ Stored(Ended.name) = <<Ended.start[1], Ended.start[3]>>

\* C16: a handler registered with once is invoked as one registered with on is:
\* with the argument fire passes to its listeners and with the registry's owner
\* as its invocation context.
C16_OnceLikeOn ==
    \A f \in Frames : \A j \in 1..Len(f.called) :
        IsWrapper(f.called[j])
            => /\ f.args[j] = Arg(f.options)
               /\ f.receivers[j] = Receiver(Plain(f.called[j].handler))

\* off(handlers) with a map that has a key without handler: the arrays of those
\* keys are emptied, the arrays of the names that are no keys stay
C17_OffMapClears ==
    \A m \in HandlerMaps :
        (\E n \in Names : m[n] = undefined)
            => LET after == offMap(eventListeners, m)
               IN  /\ DOMAIN after = DOMAIN eventListeners
                   /\ \A n \in DOMAIN eventListeners :
                         /\ m[n] = undefined => after[n] = <<>>
                         /\ m[n] = NoKey => after[n] = eventListeners[n]

\* off(N) empties the array of N and leaves the rest of the table
C17_OffNameClears ==
    \A n \in Names :
        (Off(n, undefined) /\ n \in DOMAIN eventListeners)
            => eventListeners' = [eventListeners EXCEPT ![n] = <<>>]

\* C17: off(N), and off(handlers) when the map has the key N without a handler,
\* empties the whole array of N when N has one and leaves the array of every
\* other name unchanged.
C17_OffNameOnly == []C17_OffMapClears /\ [][C17_OffNameClears]_vars

\* fire(N) found two listeners, and the one call made in the first one's body,
\* neither off() nor a disposer, emptied the array of N and left the other name's
C17_Witness ==
    /\ Depth = 1
    /\ Top.inBody
    /\ Top.i = 1
    /\ Len(Top.start) = 2
    /\ eventListeners[Top.name] = <<>>
    /\ \E n \in DOMAIN eventListeners : eventListeners[n] # <<>>
    /\ ~cleared
    /\ disposers = {}
    /\ calls = 4

\* the loop of a fire call runs over an array as long as the one stored when it
\* was called, and has made one invocation for each position it passed
C18_Bounded ==
    /\ \A k \in 1..Depth : Len(listenersForEvent(stack[k])) = Len(stack[k].start)
    /\ \A f \in Frames : Len(f.called) = f.i /\ f.i <= Len(f.start)
    /\ Returned => Len(Ended.called) = Len(Ended.start)

\* a subscription made while fire calls run lengthens none of their arrays
C18_NoGrowth ==
    \A n \in Names, h \in Handlers :
        (\E keep \in BOOLEAN : On(n, h, keep) \/ Once(n, h, keep))
            => \A k \in 1..Depth :
                  Len(listenersForEvent(stack[k])') = Len(listenersForEvent(stack[k]))

\* C18: when every listener returns and no listener calls fire, a fire(N) call
\* makes as many invocations as N's array was long when the call started,
\* however many listeners the invoked ones subscribe under N, and it ends.
C18_FireTerminates ==
    /\ []C18_Bounded
    /\ [][C18_NoGrowth]_vars
    /\ (Depth > 0) ~> (Depth = 0)

\* fire(N) returned after its only listener subscribed another one under N: one
\* invocation was made and two listeners are stored
C18_Witness ==
    /\ Returned
    /\ Len(Ended.start) = 1
    /\ Len(Ended.called) = 1
    /\ Ended.added # {}
    /\ Len(Stored(Ended.name)) = 2

\* every stored wrapper is stored once, and a held disposer of once takes out
\* its own wrapper only
C19_Distinct ==
    /\ \A n \in DOMAIN eventListeners : \A w \in Wrappers(eventListeners[n]) :
          Count(eventListeners[n], w) = 1
    /\ \A d \in disposers :
          IsWrapper(d.listener)
              => \A n \in DOMAIN eventListeners :
                    \A l \in Range(eventListeners[n]) \ {d.listener} :
                        Count(dispose(eventListeners, d)[n], l) = Count(eventListeners[n], l)

C19_Step ==
    /\ \A n \in Names, h \in Handlers :
          (\E keep \in BOOLEAN : Once(n, h, keep))
              => \E w \in Wrappers(eventListeners'[n]) :
                    /\ w.handler = h
                    /\ \A o \in DOMAIN eventListeners : w \notin Range(eventListeners[o])
                    /\ eventListeners'[n] = Append(Stored(n), w)
    /\ (Return /\ IsWrapper(Current))
          => \A n \in DOMAIN eventListeners :
                \A w \in Wrappers(eventListeners[n]) \ {Current} :
                    w \in Range(eventListeners'[n])

\* C19: every once(N, L) call stores a wrapper of its own: two calls with the
\* same L are independent, each disposer removes its own wrapper only, and the
\* self-removal of one wrapper leaves the other one stored.
C19_OnceIndependent == []C19_Distinct /\ [][C19_Step]_vars

\* fire(N) returned after the wrapper of once(N, L) ran and removed itself,
\* while the wrapper of a second once(N, L) is stored and has not run
C19_Witness ==
    /\ Returned
    /\ Len(Ended.start) = 1
    /\ IsWrapper(Ended.start[1])
    /\ Ended.called = Ended.start
    /\ Len(Stored(Ended.name)) = 1
    /\ IsWrapper(Stored(Ended.name)[1])
    /\ Stored(Ended.name)[1].handler = Ended.start[1].handler
    /\ Stored(Ended.name)[1] # Ended.start[1]
    /\ invoked[Stored(Ended.name)[1].wid] = 0

====
